---- MODULE Spec2Model ----
(***************************************************************************)
(* Model of the LangGraph workflow of the Agentic Market Gap Explorer.     *)
(* Two wirings of the same graph exist: src/agent.py (the command-line     *)
(* agent) and src/app.py (the Flask streaming backend).  The variable      *)
(* `variant` selects which file a behaviour is a run of.                   *)
(*                                                                         *)
(* Strings are sequences of tokens, so that strip(), replace(), join() and *)
(* format() are computed and not assumed.  A state of the graph is a       *)
(* function from the field names that have been written to their values:   *)
(* a field that no node has written yet is absent, as in LangGraph.        *)
(***************************************************************************)
EXTENDS Integers, Sequences, FiniteSets, TLC

VARIABLES variant, state, pc, steps, events, failed

vars == <<variant, state, pc, steps, events, failed>>

(* ------------------------------ bounds --------------------------------- *)

\* most tool requests in one response of the researcher's LLM
MaxCalls == 2
\* most tool requests of the researcher's LLM in one run
MaxRequests == 2
\* most final answers of the validation phase that are blank
MaxRetries == 1
\* most items in the market analyst's answer
MaxNiches == 2

(* ------------------------------ strings -------------------------------- *)

IsSpace(c) == c = " "

RECURSIVE LStrip(_)
LStrip(s) == IF s # <<>> /\ IsSpace(Head(s)) THEN LStrip(Tail(s)) ELSE s

RECURSIVE RStrip(_)
RStrip(s) ==
    IF s # <<>> /\ IsSpace(s[Len(s)]) THEN RStrip(SubSeq(s, 1, Len(s) - 1)) ELSE s

\* str.strip()
Strip(s) == RStrip(LStrip(s))

\* str.replace(tok, '')
Remove(s, tok) == SelectSeq(s, LAMBDA c : c # tok)

\* sep.join(list)
RECURSIVE Join(_, _)
Join(sep, list) ==
    IF list = <<>> THEN <<>>
    ELSE IF Len(list) = 1 THEN list[1]
    ELSE list[1] \o <<sep>> \o Join(sep, Tail(list))

\* json.dumps(list of {title, description}, indent=2)
RECURSIVE JsonItems(_)
JsonItems(list) ==
    IF list = <<>> THEN <<>>
    ELSE <<"{">> \o list[1].title \o <<",">> \o list[1].description \o <<"}">>
         \o JsonItems(Tail(list))

JsonDumps(list) == <<"[">> \o JsonItems(list) \o <<"]">>

(* ------------------------------ messages ------------------------------- *)

NoId == <<>>

HumanMessage(c) ==
    [type |-> "human", content |-> c, tool_calls |-> <<>>, tool_call_id |-> NoId]

AIMessage(c, calls) ==
    [type |-> "ai", content |-> c, tool_calls |-> calls, tool_call_id |-> NoId]

ToolMessage(c, id) ==
    [type |-> "tool", content |-> c, tool_calls |-> <<>>, tool_call_id |-> id]

Last(seq) == seq[Len(seq)]

\* hasattr(m, 'tool_calls') and m.tool_calls
HasToolCalls(m) == m.type = "ai" /\ m.tool_calls # <<>>

(* ------------------------------ state ---------------------------------- *)

Fields(v) ==
    {"topic", "sub_niches", "validated_niche", "reddit_data", "final_report", "messages"}
    \cup (IF v = "app" THEN {"reason"} ELSE {})

\* state.get(f) is falsy: the field is absent or empty
Falsy(s, f) == f \notin DOMAIN s \/ s[f] = <<>>

\* state.get(f, default)
Get(s, f, default) == IF f \in DOMAIN s THEN s[f] ELSE default

\* every channel, messages too, keeps the last write
AgentState_overwrite(s, upd) ==
    [f \in DOMAIN s \cup DOMAIN upd |-> IF f \in DOMAIN upd THEN upd[f] ELSE s[f]]

\* a field the update does not name is dropped from the state
AgentState_forgets(s, upd) ==
    [f \in DOMAIN upd \cup {"messages"} |->
        IF f = "messages" THEN s[f] \o Get(upd, f, <<>>) ELSE upd[f]]

\* the messages update is put in front of the sequence
AgentState_prepend(s, upd) ==
    [f \in DOMAIN s \cup DOMAIN upd |->
        IF f \notin DOMAIN upd THEN s[f]
        ELSE IF f = "messages" /\ f \in DOMAIN s THEN upd[f] \o s[f]
        ELSE upd[f]]

\* the channel reducers: operator.add for messages, last write wins otherwise
AgentState(s, upd) ==
    [f \in DOMAIN s \cup DOMAIN upd |->
        IF f \notin DOMAIN upd THEN s[f]
        ELSE IF f = "messages" /\ f \in DOMAIN s THEN s[f] \o upd[f]
        ELSE upd[f]]

(* ------------------------------ prompts -------------------------------- *)

researcher_prompt_template(sub_niches, validated_niche) ==
    <<"TASK 1: Demand Validation">> \o sub_niches
    \o <<"TASK 2: Pain Point Gathering">> \o validated_niche

(* ------------------------------ tools ---------------------------------- *)

\* tools = [search_tool]; the names the lookup loop can find
tools == {"google_search"}

\* search_tool.invoke(args): the search backend answers, or raises
search_tool(args) ==
    IF args = "boom"
    THEN [raises |-> TRUE, value |-> <<"timeout">>]
    ELSE [raises |-> FALSE, value |-> <<"result">>]

(* --------------------------- the LLM's answers ------------------------- *)

\* what the LLM asks for in one tool request
Requests ==
    { [name |-> "google_search", args |-> "q"],
      [name |-> "google_search", args |-> "boom"],
      [name |-> "unknown_tool", args |-> "q"] }

\* the text of a final answer: blank, or padded with blanks
Contents == { <<" ">>, <<" ", "a", " ">> }

Reports == { <<>>, <<"report">> }

\* str(e) of the exception of an LLM call that fails
llm_error == <<"llm unavailable">>

\* str(e) of json.loads and of data['subniches']
json_error == <<"JSONDecodeError">>

key_error == <<"'subniches'">>

Batches == UNION { [1..n -> Requests] : n \in 1..MaxCalls }

\* a response of the researcher's LLM that is appended at position k
ToolResponse(batch, k) ==
    AIMessage(<<>>, [i \in 1..Len(batch) |->
        [name |-> batch[i].name, args |-> batch[i].args, id |-> <<k, i>>]])

FinalResponse(c) == AIMessage(c, <<>>)

\* the lines of the market analyst's answer in src/agent.py
Lines ==
    { [fmt |-> "bold", name |-> <<" ", "a", ":">>],
      [fmt |-> "bold", name |-> <<":">>],
      [fmt |-> "num", name |-> <<"a", " ">>],
      [fmt |-> "text", name |-> <<"a">>] }

AgentAnswers == UNION { [1..n -> Lines] : n \in 0..MaxNiches }

Niche == [title |-> <<"a">>, description |-> <<"d">>]

\* the market analyst's answer in src/app.py: not JSON, JSON without the
\* key, or JSON with a list under "subniches"
AppAnswers ==
    { [json |-> FALSE, haskey |-> FALSE, subniches |-> <<>>],
      [json |-> TRUE, haskey |-> FALSE, subniches |-> <<>>] }
    \cup { [json |-> TRUE, haskey |-> TRUE, subniches |-> [i \in 1..n |-> Niche]]
           : n \in 0..MaxNiches }

(* ------------------------------ nodes ---------------------------------- *)

\* re.findall: the bold titles, or failing any, the numbered lines
FindAll(content) ==
    LET bold == SelectSeq(content, LAMBDA l : l.fmt = "bold")
        num  == SelectSeq(content, LAMBDA l : l.fmt = "num")
        pick == IF bold # <<>> THEN bold ELSE num
    IN  [i \in 1..Len(pick) |-> pick[i].name]

cleaned_niches(niches) ==
    [i \in 1..Len(niches) |-> Remove(Remove(Strip(niches[i]), "**"), ":")]

\* json.loads(response.content) or data['subniches'] raises
market_analyst_raises(v, answer) ==
    v = "app" /\ (~answer.json \/ ~answer.haskey)

\* the analyst's update names the topic as well
market_analyst_node_sets_topic(v, s, answer) ==
    [sub_niches |-> IF v = "app" THEN answer.subniches
                    ELSE SelectSeq(cleaned_niches(FindAll(answer)), LAMBDA n : n # <<>>),
     messages |-> <<>>,
     topic |-> <<"market">>]

market_analyst_node(v, s, answer) ==
    IF v = "app"
    THEN [sub_niches |-> answer.subniches]
    ELSE [sub_niches |-> SelectSeq(cleaned_niches(FindAll(answer)), LAMBDA n : n # <<>>),
          messages |-> <<>>]

\* the test of validated_niche is inverted
prepare_researcher_node_inverted(v, s) ==
    LET sub_niches_str ==
            IF v = "app" THEN JsonDumps(s["sub_niches"]) ELSE Join("\n", s["sub_niches"])
        prompt ==
            IF ~Falsy(s, "validated_niche")
            THEN researcher_prompt_template(sub_niches_str, <<>>)
            ELSE researcher_prompt_template(<<>>, Get(s, "validated_niche", <<>>))
    IN  [messages |-> <<HumanMessage(prompt)>>]

prepare_researcher_node(v, s) ==
    LET sub_niches_str ==
            IF v = "app" THEN JsonDumps(s["sub_niches"]) ELSE Join("\n", s["sub_niches"])
        prompt ==
            IF Falsy(s, "validated_niche")
            THEN researcher_prompt_template(sub_niches_str, <<>>)
            ELSE researcher_prompt_template(<<>>, s["validated_niche"])
    IN  [messages |-> <<HumanMessage(prompt)>>]

researcher_node(s, response) == [messages |-> <<response>>]

idea_generator_node(v, s, report) == [final_report |-> report]

tool_message(tool_call) ==
    LET out == search_tool(tool_call.args)
        output_str ==
            IF out.raises
            THEN <<"Error running tool ", tool_call.name, ": ">> \o out.value
            ELSE out.value
    IN  ToolMessage(output_str, tool_call.id)

\* a tool that raises leaves no message
RECURSIVE tool_messages_drop_failed(_)
tool_messages_drop_failed(tool_calls) ==
    IF tool_calls = <<>> THEN <<>>
    ELSE (IF tool_calls[1].name \in tools /\ ~search_tool(tool_calls[1].args).raises
          THEN <<tool_message(tool_calls[1])>> ELSE <<>>)
         \o tool_messages_drop_failed(Tail(tool_calls))

RECURSIVE tool_messages(_)
tool_messages(tool_calls) ==
    IF tool_calls = <<>> THEN <<>>
    ELSE (IF tool_calls[1].name \in tools THEN <<tool_message(tool_calls[1])>> ELSE <<>>)
         \o tool_messages(Tail(tool_calls))

call_tool_node(s) == [messages |-> tool_messages(Last(s["messages"]).tool_calls)]

save_validated_niche_node(v, s) ==
    LET validated_niche == Strip(Last(s["messages"]).content)
    IN  IF v = "app"
        THEN [validated_niche |-> validated_niche,
              reason |-> <<"Determined by AI researcher.">>,
              messages |-> <<>>]
        ELSE [validated_niche |-> validated_niche, messages |-> <<>>]

save_pain_points_node(s) == [reddit_data |-> Strip(Last(s["messages"]).content)]

\* validated_niche is looked at before the tool requests
router_niche_first(v, s) ==
    IF Falsy(s, "validated_niche") THEN "save_niche"
    ELSE IF HasToolCalls(Last(s["messages"])) THEN "call_tool"
    ELSE IF v = "app" THEN "save_pain_points"
    ELSE "continue_to_generator"

\* src/app.py keeps the evidence label of src/agent.py
router_agent_label(v, s) ==
    IF HasToolCalls(Last(s["messages"])) THEN "call_tool"
    ELSE IF Falsy(s, "validated_niche") THEN "save_niche"
    ELSE "continue_to_generator"

\* the test of validated_niche is inverted
router_inverted(v, s) ==
    IF HasToolCalls(Last(s["messages"])) THEN "call_tool"
    ELSE IF ~Falsy(s, "validated_niche") THEN "save_niche"
    ELSE IF v = "app" THEN "save_pain_points"
    ELSE "continue_to_generator"

router(v, s) ==
    IF HasToolCalls(Last(s["messages"])) THEN "call_tool"
    ELSE IF Falsy(s, "validated_niche") THEN "save_niche"
    ELSE IF v = "app" THEN "save_pain_points"
    ELSE "continue_to_generator"

(* ------------------------------ graph ---------------------------------- *)

\* add_conditional_edges("researcher", router, {...})
conditional_edges(v) ==
    IF v = "app"
    THEN [call_tool |-> "call_tool", save_niche |-> "save_niche",
          save_pain_points |-> "save_pain_points"]
    ELSE [call_tool |-> "call_tool", save_niche |-> "save_niche",
          continue_to_generator |-> "idea_generator"]

\* call_tool hands over to prepare_researcher
edges_tool_to_prepare(v) ==
    [market_analyst |-> "prepare_researcher", prepare_researcher |-> "researcher",
     save_niche |-> "prepare_researcher", save_pain_points |-> "idea_generator",
     idea_generator |-> "END", call_tool |-> "prepare_researcher"]

\* idea_generator hands over to prepare_researcher
edges_generator_loops(v) ==
    [market_analyst |-> "prepare_researcher", prepare_researcher |-> "researcher",
     save_niche |-> "prepare_researcher", save_pain_points |-> "idea_generator",
     idea_generator |-> "prepare_researcher", call_tool |-> "researcher"]

\* set_entry_point and add_edge
entry_point == "market_analyst"

edges(v) ==
    IF v = "app"
    THEN [market_analyst |-> "prepare_researcher", prepare_researcher |-> "researcher",
          save_niche |-> "prepare_researcher", save_pain_points |-> "idea_generator",
          idea_generator |-> "END", call_tool |-> "researcher"]
    ELSE [market_analyst |-> "prepare_researcher", prepare_researcher |-> "researcher",
          idea_generator |-> "END", call_tool |-> "researcher",
          save_niche |-> "prepare_researcher"]

(* --------------------------- streaming driver -------------------------- *)

\* the idea generator's data is held back as well
step_event_hides_report(step_name, data) ==
    IF step_name \in {"researcher", "call_tool", "prepare_researcher", "idea_generator"}
    THEN [step |-> step_name, data |-> <<>>]
    ELSE [step |-> step_name, data |-> data]

\* the researcher's data is streamed as well
step_event_leaks(step_name, data) ==
    IF step_name \in {"call_tool", "prepare_researcher"}
    THEN [step |-> step_name, data |-> <<>>]
    ELSE [step |-> step_name, data |-> data]

\* the event stream_events yields for one step of langgraph_app.stream
step_event(step_name, data) ==
    IF step_name \in {"researcher", "call_tool", "prepare_researcher"}
    THEN [step |-> step_name, data |-> <<>>]
    ELSE [step |-> step_name, data |-> data]

done_event == [step |-> "done"]

error_event(e) == [step |-> "error", data |-> [error |-> e]]

\* the events of src/app.py; src/agent.py streams to the console only
Emit(v, ev) == IF v = "app" THEN Append(events, ev) ELSE events

(* ------------------------------ executor ------------------------------- *)

\* one step of the compiled graph: run the node, merge its update, follow
\* the edge (the router on the merged state, for the researcher)
Step(node, upd) ==
    LET merged == AgentState(state, upd)
    IN  /\ state' = merged
        /\ steps' = Append(steps, [node |-> node, update |-> upd])
        /\ events' = Emit(variant, step_event(node, upd))
        /\ pc' = IF node = "researcher"
                 THEN conditional_edges(variant)[router(variant, merged)]
                 ELSE edges(variant)[node]
        /\ UNCHANGED <<variant, failed>>

\* the exception is reported and the loop over the steps goes on
Abort_continues(node, e) ==
    /\ pc' = pc
    /\ failed' = node
    /\ events' = Emit(variant, error_event(e))
    /\ UNCHANGED <<variant, state, steps>>

\* a node raised: the run stops and stream_events reports it
Abort(node, e) ==
    /\ pc' = "ERROR"
    /\ failed' = node
    /\ events' = Emit(variant, error_event(e))
    /\ UNCHANGED <<variant, state, steps>>

ToolTurns(msgs) == Len(SelectSeq(msgs, HasToolCalls))

\* the tool requests in the messages so far
RECURSIVE ToolRequests(_)
ToolRequests(msgs) ==
    IF msgs = <<>> THEN 0 ELSE Len(msgs[1].tool_calls) + ToolRequests(Tail(msgs))

Retries == Len(SelectSeq(steps,
              LAMBDA st : st.node = "save_niche" /\ st.update["validated_niche"] = <<>>))

market_analyst ==
    /\ pc = "market_analyst"
    /\ \/ \E answer \in (IF variant = "app" THEN AppAnswers ELSE AgentAnswers) :
             IF market_analyst_raises(variant, answer)
             THEN Abort("market_analyst", IF answer.json THEN key_error ELSE json_error)
             ELSE Step("market_analyst", market_analyst_node(variant, state, answer))
       \/ Abort("market_analyst", llm_error)

prepare_researcher ==
    /\ pc = "prepare_researcher"
    /\ Step("prepare_researcher", prepare_researcher_node(variant, state))

researcher ==
    /\ pc = "researcher"
    /\ \/ \E batch \in Batches :
             /\ ToolRequests(state["messages"]) + Len(batch) <= MaxRequests
             /\ Step("researcher",
                     researcher_node(state, ToolResponse(batch, Len(state["messages"]) + 1)))
       \/ \E c \in Contents :
             /\ (Falsy(state, "validated_niche") /\ Strip(c) = <<>>) => Retries < MaxRetries
             /\ Step("researcher", researcher_node(state, FinalResponse(c)))
       \/ Abort("researcher", llm_error)

call_tool ==
    /\ pc = "call_tool"
    /\ Step("call_tool", call_tool_node(state))

save_niche ==
    /\ pc = "save_niche"
    /\ Step("save_niche", save_validated_niche_node(variant, state))

save_pain_points ==
    /\ pc = "save_pain_points"
    /\ Step("save_pain_points", save_pain_points_node(state))

idea_generator ==
    /\ pc = "idea_generator"
    /\ \/ \E report \in Reports :
             Step("idea_generator", idea_generator_node(variant, state, report))
       \/ Abort("idea_generator", llm_error)

\* the loop over langgraph_app.stream ended without an exception
stream_done ==
    /\ pc = "END"
    /\ variant = "app"
    /\ pc' = "DONE"
    /\ events' = Append(events, done_event)
    /\ UNCHANGED <<variant, state, steps, failed>>

Topics == { <<"Wealth">> }

Init ==
    /\ variant \in {"agent", "app"}
    /\ state \in { [topic |-> t, messages |-> <<>>] : t \in Topics }
    /\ pc = entry_point
    /\ steps = <<>>
    /\ events = <<>>
    /\ failed = "none"

Next ==
    \/ market_analyst
    \/ prepare_researcher
    \/ researcher
    \/ call_tool
    \/ save_niche
    \/ save_pain_points
    \/ idea_generator
    \/ stream_done

Spec == Init /\ [][Next]_vars

\* the names of the nodes executed so far, in order
Trace == [i \in 1..Len(steps) |-> steps[i].node]

(* ------------------------------ helpers -------------------------------- *)

Ran == Len(steps) > 0

\* the node that follows the last completed step: the one to run next, or
\* the one that ran and raised
NextNode == IF pc = "ERROR" THEN failed ELSE pc

LastStep == steps[Len(steps)]

\* the messages the last executed node returned
LastAdded == Get(LastStep.update, "messages", <<>>)

\* after call_tool: the message whose tool requests it served
Requester == state["messages"][Len(state["messages"]) - Len(LastAdded)]

Pending == state["messages"] # <<>> /\ HasToolCalls(Last(state["messages"]))

Answered == state["messages"] # <<>> /\ ~HasToolCalls(Last(state["messages"]))

Variants == {"agent", "app"}

Texts == { <<>>, <<"a">> }

Lists == { <<>>, << <<"a">> >> }

EvidenceLabel(v) == IF v = "app" THEN "save_pain_points" ELSE "continue_to_generator"

(* ------------------------------ claims --------------------------------- *)

\* C1: in both files, when the last message carries a non-empty list of
\* pending tool requests, router returns "call_tool" whatever the values of
\* validated_niche, reddit_data, sub_niches and final_report.
C1_ToolRequestsFirst ==
    Pending =>
        /\ \A v \in Variants : router(v, state) = "call_tool"
        /\ \A v \in Variants, vn \in Texts, rd \in Texts, sn \in Lists, fr \in Texts :
              router(v, AgentState(state, [validated_niche |-> vn, reddit_data |-> rd,
                                           sub_niches |-> sn, final_report |-> fr]))
                  = "call_tool"

\* a tool request of the evidence phase: validated_niche is set
C1_Witness ==
    /\ Pending
    /\ pc = "call_tool"
    /\ ~Falsy(state, "validated_niche")

\* C2: when the last message carries no pending tool requests, router
\* returns "save_niche" exactly when validated_niche is empty and the
\* evidence label of the file otherwise; every label it returns is a key of
\* the researcher's conditional-edge map.
C2_RouterLabels ==
    /\ state["messages"] # <<>> =>
          router(variant, state) \in DOMAIN conditional_edges(variant)
    /\ Answered =>
          /\ router(variant, state) = "save_niche" <=> Falsy(state, "validated_niche")
          /\ \A vn \in Texts :
                LET s == AgentState(state, [validated_niche |-> vn])
                    label == router(variant, s)
                IN  /\ label = "save_niche" <=> vn = <<>>
                    /\ vn # <<>> => label = EvidenceLabel(variant)
                    /\ label \in DOMAIN conditional_edges(variant)

\* the researcher answered in the evidence phase and the router chose the
\* evidence label
C2_Witness ==
    /\ Ran
    /\ LastStep.node = "researcher"
    /\ Answered
    /\ ~Falsy(state, "validated_niche")
    /\ pc = conditional_edges(variant)[EvidenceLabel(variant)]

\* C3: after a researcher step that appended a response with pending tool
\* requests the next node is call_tool, after call_tool the next node is
\* researcher, and save_niche, save_pain_points and idea_generator run only
\* when the last message carries no pending tool requests.
C3_ToolLoopDrains ==
    /\ (Ran /\ LastStep.node = "researcher" /\ HasToolCalls(Last(LastAdded)))
          => NextNode = "call_tool"
    /\ (Ran /\ LastStep.node = "call_tool") => NextNode = "researcher"
    /\ NextNode \in {"save_niche", "save_pain_points", "idea_generator"} => Answered
    /\ \A i \in 1..Len(steps) - 1 :
          /\ (steps[i].node = "researcher" /\ HasToolCalls(steps[i].update["messages"][1]))
                => steps[i + 1].node = "call_tool"
          /\ steps[i].node = "call_tool" => steps[i + 1].node = "researcher"

\* two tool turns in a row, then the researcher runs again
C3_Witness ==
    /\ Len(steps) >= 5
    /\ steps[Len(steps) - 4].node = "researcher"
    /\ steps[Len(steps) - 3].node = "call_tool"
    /\ steps[Len(steps) - 2].node = "researcher"
    /\ steps[Len(steps) - 1].node = "call_tool"
    /\ LastStep.node = "researcher"
    /\ pc \in {"save_niche", "save_pain_points", "idea_generator"}

\* C4: after every call_tool step, for any batch of requests, the message
\* with the N pending requests is immediately followed by exactly N
\* tool-result messages, the i-th carrying the id of the i-th request.
C4_OneResultPerRequest ==
    (Ran /\ LastStep.node = "call_tool") =>
        /\ HasToolCalls(Requester)
        /\ Len(LastAdded) = Len(Requester.tool_calls)
        /\ \A i \in 1..Len(LastAdded) :
              /\ LastAdded[i].type = "tool"
              /\ LastAdded[i].tool_call_id = Requester.tool_calls[i].id

\* C5: a request that names a tool that is not registered gets a
\* tool-result message whose content is an error string naming the tool,
\* and the run continues to the researcher.
C5_UnknownToolError ==
    (Ran /\ LastStep.node = "call_tool") =>
        /\ NextNode = "researcher"
        /\ \A i \in 1..Len(Requester.tool_calls) :
              Requester.tool_calls[i].name \notin tools =>
                  \E j \in 1..Len(LastAdded) :
                      /\ LastAdded[j].type = "tool"
                      /\ LastAdded[j].tool_call_id = Requester.tool_calls[i].id
                      /\ \E k \in 1..Len(LastAdded[j].content) :
                            LastAdded[j].content[k] = Requester.tool_calls[i].name

\* C6: when the N requests all name registered tools, call_tool returns
\* exactly N tool-result messages in request order: "Error running tool
\* <name>: <exception>" for an invocation that raised, the string of the
\* output for the others; the run goes on to the researcher.
C6_ToolFailureContained ==
    (/\ Ran
     /\ LastStep.node = "call_tool"
     /\ \A i \in 1..Len(Requester.tool_calls) : Requester.tool_calls[i].name \in tools)
    =>
        /\ NextNode = "researcher"
        /\ Len(LastAdded) = Len(Requester.tool_calls)
        /\ \A i \in 1..Len(LastAdded) :
              LET call == Requester.tool_calls[i]
                  out == search_tool(call.args)
              IN  /\ LastAdded[i].type = "tool"
                  /\ LastAdded[i].tool_call_id = call.id
                  /\ out.raises =>
                        LastAdded[i].content
                            = <<"Error running tool ", call.name, ": ">> \o out.value
                  /\ ~out.raises => LastAdded[i].content = out.value

\* a batch of registered tools of which one raised and another answered
C6_Witness ==
    /\ Ran
    /\ LastStep.node = "call_tool"
    /\ \A i \in 1..Len(Requester.tool_calls) : Requester.tool_calls[i].name \in tools
    /\ \E i, j \in 1..Len(Requester.tool_calls) :
          /\ search_tool(Requester.tool_calls[i].args).raises
          /\ ~search_tool(Requester.tool_calls[j].args).raises
    /\ pc = "researcher"

\* C7: after save_niche has run and its update has been merged, the
\* messages field is empty.
C7_MessagesCleared ==
    (Ran /\ LastStep.node = "save_niche") => state["messages"] = <<>>

C9_EmptyListAborts ==
    (Ran /\ steps[1].node = "market_analyst" /\ steps[1].update["sub_niches"] = <<>>) =>
        /\ pc = "ERROR"
        /\ Len(steps) = 1
        /\ "final_report" \notin DOMAIN state

\* the steps of a run of two phases with k tool-requesting turns
RunBound(v, k) == (IF v = "app" THEN 8 ELSE 7) + 2 * k

\* C10: when the Reasoner in each phase answers without tool requests after
\* finitely many tool-requesting turns, the run reaches END after a bounded
\* number of steps, with final_report written.
C10_BoundedRun ==
    /\ Len(steps) <= RunBound(variant, ToolTurns(state["messages"]))
    /\ pc \in {"END", "DONE"} => "final_report" \in DOMAIN state

IsTerminal(ev) == ev.step \in {"done", "error"}

\* C11: the events of stream_events end with exactly one terminal event,
\* which is the last: done when the graph reached END, error with a message
\* when a node raised; after a node raised no node runs and no event is
\* emitted; done and error never both appear.
C11_OneTerminalEvent ==
    /\ [](variant = "app" =>
            /\ \A i \in 1..Len(events) : IsTerminal(events[i]) => i = Len(events)
            /\ pc = "DONE" <=> (events # <<>> /\ Last(events) = [step |-> "done"])
            /\ pc = "ERROR" <=> (events # <<>> /\ Last(events).step = "error")
            /\ pc = "ERROR" => Last(events).data["error"] # <<>>
            /\ pc \notin {"DONE", "ERROR"} => Len(events) = Len(steps))
    /\ [][ /\ pc \notin {"DONE", "ERROR"}
           /\ pc' = "DONE" => pc = "END"
           /\ pc' = "ERROR" => (steps' = steps /\ state' = state)
         ]_vars

\* the researcher's LLM call raised after some steps had been streamed
C11_Witness ==
    /\ variant = "app"
    /\ pc = "ERROR"
    /\ failed = "researcher"
    /\ Len(events) >= 4
    /\ Last(events).step = "error"

\* C12 as stated: for a successful run the final event of stream_events
\* carries the completed final_report.
C12_FinalEventHasReport ==
    (variant = "app" /\ pc = "DONE") =>
        /\ "data" \in DOMAIN Last(events)
        /\ "final_report" \in DOMAIN Last(events).data
        /\ Last(events).data["final_report"] = state["final_report"]

\* C12 amended: for a successful run the final event is the done marker,
\* which carries no data; the event just before it is the idea_generator
\* step, whose data carries the final_report of the state.
C12_ReportBeforeDone ==
    (variant = "app" /\ pc = "DONE") =>
        /\ Len(events) >= 2
        /\ Last(events) = done_event
        /\ "data" \notin DOMAIN Last(events)
        /\ events[Len(events) - 1].step = "idea_generator"
        /\ "final_report" \in DOMAIN events[Len(events) - 1].data
        /\ events[Len(events) - 1].data["final_report"] = state["final_report"]

\* a run of src/app.py that ended with a report
C12_Witness ==
    /\ variant = "app"
    /\ pc = "DONE"
    /\ state["final_report"] = <<"report">>

\* the steps so far in which node n ran
StepsOf(n) == { i \in 1..Len(steps) : steps[i].node = n }

\* the steps so far whose update writes field f
Writes(f) == { i \in 1..Len(steps) : f \in DOMAIN steps[i].update }

\* C13: validated_niche is empty in every state before the first
\* save_niche step and non-empty in every state after a save_niche step,
\* whatever final answer the Reasoner returned (a blank one too); hence
\* save_niche runs at most once in a run.
C13_NicheSetBySave ==
    /\ StepsOf("save_niche") = {} => Falsy(state, "validated_niche")
    /\ StepsOf("save_niche") # {} => ~Falsy(state, "validated_niche")
    /\ Cardinality(StepsOf("save_niche")) <= 1

\* C14: in src/app.py, when reddit_data is non-empty validated_niche is
\* non-empty, and save_pain_points runs only after a save_niche step has
\* stored a non-empty validated_niche.
C14_EvidenceAfterNiche ==
    variant = "app" =>
        /\ ~Falsy(state, "reddit_data") => ~Falsy(state, "validated_niche")
        /\ (NextNode = "save_pain_points" \/ StepsOf("save_pain_points") # {}) =>
              /\ ~Falsy(state, "validated_niche")
              /\ \E i \in StepsOf("save_niche") :
                    /\ steps[i].update["validated_niche"] # <<>>
                    /\ \A j \in StepsOf("save_pain_points") : i < j

\* save_pain_points stored a non-empty summary
C14_Witness ==
    /\ variant = "app"
    /\ Ran
    /\ LastStep.node = "save_pain_points"
    /\ ~Falsy(state, "reddit_data")
    /\ ~Falsy(state, "validated_niche")

\* C15: final_report is written at most once and only by idea_generator,
\* the step after idea_generator is END, and a run that reached END has
\* written final_report exactly once.
C15_ReportWrittenOnce ==
    /\ Cardinality(Writes("final_report")) <= 1
    /\ Writes("final_report") = StepsOf("idea_generator")
    /\ "final_report" \in DOMAIN state <=> Writes("final_report") # {}
    /\ \A i \in StepsOf("idea_generator") : i = Len(steps) /\ pc \in {"END", "DONE"}
    /\ pc \in {"END", "DONE"} =>
          /\ Cardinality(Writes("final_report")) = 1
          /\ LastStep.node = "idea_generator"
          /\ state["final_report"] = LastStep.update["final_report"]

\* idea_generator has run and the graph is at END
C15_Witness ==
    /\ pc = "END"
    /\ Ran
    /\ LastStep.node = "idea_generator"
    /\ "final_report" \in DOMAIN state

\* C16: topic is immutable: in every state of a run it is the topic of the
\* initial input, and no node's update contains the topic field.
C16_TopicImmutable ==
    /\ [](/\ "topic" \in DOMAIN state
          /\ state["topic"] \in Topics
          /\ Writes("topic") = {})
    /\ [][state'["topic"] = state["topic"]]_vars

\* a whole run has been executed and the topic is the one given
C16_Witness ==
    /\ pc = "END"
    /\ Len(steps) >= 7
    /\ state["topic"] = <<"Wealth">>

\* C17: a step changes only the fields of the node's update: a field absent
\* from the update keeps its value, a field other than messages that is
\* present takes the update's value, and merging the empty update gives a
\* state equal to the state before.
C17_MergeFrame ==
    /\ [](AgentState(state, <<>>) = state)
    /\ [][ /\ steps' = steps => state' = state
           /\ steps' # steps =>
                 LET upd == steps'[Len(steps')].update
                 IN  /\ DOMAIN state' = DOMAIN state \cup DOMAIN upd
                     /\ \A f \in DOMAIN state' :
                           /\ f \notin DOMAIN upd =>
                                 (f \in DOMAIN state /\ state'[f] = state[f])
                           /\ (f \in DOMAIN upd /\ f # "messages") => state'[f] = upd[f]
         ]_vars

\* a second save_niche replaced validated_niche and left sub_niches alone
C17_Witness ==
    /\ Ran
    /\ LastStep.node = "save_niche"
    /\ Cardinality(StepsOf("save_niche")) = 2
    /\ state["validated_niche"] = LastStep.update["validated_niche"]
    /\ state["validated_niche"] # <<>>
    /\ state["sub_niches"] = steps[1].update["sub_niches"]
    /\ state["sub_niches"] # <<>>

\* the events of the steps: all but the terminal one
StepEvents == SelectSeq(events, LAMBDA ev : ~IsTerminal(ev))

\* C18: stream_events emits one event per executed step, in execution
\* order, with step the node's name; the events of researcher, call_tool and
\* prepare_researcher carry an empty data object, the events of the other
\* nodes carry the node's whole update.
C18_OneEventPerStep ==
    variant = "app" =>
        /\ Len(StepEvents) = Len(steps)
        /\ \A i \in 1..Len(steps) :
              /\ events[i] = StepEvents[i]
              /\ events[i].step = steps[i].node
              /\ steps[i].node \in {"researcher", "call_tool", "prepare_researcher"}
                    => DOMAIN events[i].data = {}
              /\ steps[i].node \notin {"researcher", "call_tool", "prepare_researcher"}
                    => (DOMAIN events[i].data # {} /\ events[i].data = steps[i].update)

\* a run whose events went through every node of src/app.py
C18_Witness ==
    /\ variant = "app"
    /\ pc = "END"
    /\ StepsOf("call_tool") # {}
    /\ Len(events) = Len(steps)
    /\ DOMAIN events[3].data = {}
    /\ events[Len(events)].data = [final_report |-> <<"report">>]

\* the two slots of the researcher's instruction
Marker2 == "TASK 2: Pain Point Gathering"

Slot1(c) ==
    LET k == CHOOSE k \in 1..Len(c) : c[k] = Marker2 IN SubSeq(c, 2, k - 1)

Slot2(c) ==
    LET k == CHOOSE k \in 1..Len(c) : c[k] = Marker2 IN SubSeq(c, k + 1, Len(c))

Listing(v, s) ==
    IF v = "app" THEN JsonDumps(s["sub_niches"]) ELSE Join("\n", s["sub_niches"])

C20_ReadersSeeResponse ==
    /\ (Ran /\ LastStep.node = "researcher") =>
          /\ state["messages"] # <<>>
          /\ Last(state["messages"]) = LastStep.update["messages"][1]
          /\ Last(state["messages"]).type = "ai"
    /\ (\/ pc \in {"call_tool", "save_niche", "save_pain_points"}
        \/ (variant = "agent" /\ pc = "idea_generator")) =>
          /\ Ran
          /\ LastStep.node = "researcher"
          /\ state["messages"] # <<>>
          /\ Last(state["messages"]) = LastStep.update["messages"][1]

\* the idea_generator of src/agent.py is about to read the last message
C20_Witness ==
    /\ variant = "agent"
    /\ pc = "idea_generator"
    /\ Len(state["messages"]) >= 4
    /\ Last(state["messages"]) = LastStep.update["messages"][1]

====
